---- MODULE Spec2Model ----
(***************************************************************************)
(* RandomX_Hasher of p2pool (src/src/pow_hash.cpp): the two seed slots,    *)
(* their caches and VMs, the optional dataset with its own VM, the two     *)
(* read/write locks, the three VM mutexes, and the threads that call       *)
(* set_seed, set_old_seed, calculate and the destructor.                   *)
(*                                                                         *)
(* A cache is modelled by the seed it was last initialized from, a light   *)
(* VM by the seed of the cache it was last bound to, a dataset item by the *)
(* seed of the cache it was last built from.  A hash is modelled by the    *)
(* key of the VM that computes it.                                         *)
(*                                                                         *)
(* Spec is the hasher under concurrent callers and the destructor;         *)
(* SpecSeq one caller without teardown; SpecLive the rotations and the     *)
(* teardown under a fair scheduler; SpecRange the partition of the dataset *)
(* items among the rebuild workers; SpecAsync the hasher driven through    *)
(* set_seed_async and set_old_seed_async.                                  *)
(***************************************************************************)
EXTENDS Integers, FiniteSets, Sequences, TLC

\* ---------------------------------------------------------------- bounds
MaxSeed == 3
MaxCalls == 3
SeqCalls == 5
NumItems == 2
\* Jobs queued by set_seed_async and set_old_seed_async.
MaxJobs == 3
\* Item counts and hardware thread hints of the partitions studied on their
\* own.
MaxRangeItems == 64
MaxHw == 8
\* Calls made in the runs under a fair scheduler.
LiveCalls == 2

\* ------------------------------------------------------- program values
ZeroSeed == 0
FULL_DATASET_VM == 2
NoVM == -1
Uninit == -2
Freed == -3
Garbage == -4
DatasetVM == -5
NoSeed == MaxSeed + 1

Seeds == ZeroSeed..MaxSeed
Slots == {0, 1}
VMs == {0, 1, FULL_DATASET_VM}
Items == 0..(NumItems - 1)
HwHints == {1, 4}
WorkerIds == 0..1

Threads == {"t1", "t2"}
TD == "td"
NoThread == "none"

VARIABLES
    m_index, m_seed, m_cache, m_vm, m_dataset, dataset,
    m_setSeedCounter, m_stopped,
    dWriter, dReaders, cWriter, cReaders, vmMutex,
    pc, arg, waited, late, after,
    numThreads, worker,
    tdpc, tdI,
    aborted, uaf, calls,
    fullVmFailed, settled, prevOld, evictedOld, fresh,
    job, num_running_jobs, poolStopped, afterQ,
    part, tick

vars == <<m_index, m_seed, m_cache, m_vm, m_dataset, dataset,
          m_setSeedCounter, m_stopped,
          dWriter, dReaders, cWriter, cReaders, vmMutex,
          pc, arg, waited, late, after,
          numThreads, worker,
          tdpc, tdI,
          aborted, uaf, calls,
          fullVmFailed, settled, prevOld, evictedOld, fresh,
          job, num_running_jobs, poolStopped, afterQ,
          part, tick>>

\* m_index, the slots and the dataset contents
memVars == <<m_index, m_seed, m_cache, m_vm, dataset>>
atomVars == <<m_setSeedCounter, m_stopped>>
dLock == <<dWriter, dReaders>>
cLock == <<cWriter, cReaders>>
lockVars == <<dWriter, dReaders, cWriter, cReaders, vmMutex>>
threadVars == <<pc, arg, waited, late, after>>
buildVars == <<numThreads, worker>>
tdVars == <<tdpc, tdI>>
ubVars == <<aborted, uaf>>
\* The dispatch of set_seed_async and set_old_seed_async: the job a thread
\* of the work queue runs, the job counter, the pool's stopped flag and the
\* number of jobs whose work callback is over and whose after-work callback
\* has not run yet.
asyncVars == <<job, num_running_jobs, poolStopped, afterQ>>
\* asyncVars, the partition of the dataset items under study (part) and the
\* parity of the sleeps of set_old_seed's poll (tick).
extVars == <<job, num_running_jobs, poolStopped, afterQ, part, tick>>
\* History kept for the properties: fullVmFailed, a creation of the
\* full-dataset VM has failed; settled, the seed of the last set_seed that
\* returned, while no rotation to another seed has started since; prevOld,
\* whether the non-current slot was last written by set_old_seed ("no",
\* "yes", or "waited" when that call had slept on the rotation counter);
\* evictedOld, the seed the last rotation evicted when set_old_seed had
\* placed it.
ghostVars == <<fullVmFailed, settled, prevOld, evictedOld>>

\* ------------------------------------------------------------- helpers
\* m_index ^ 1 (lines 206, 300, 360)
Xor1(i) == 1 - i

\* The destructor has destroyed both read/write locks (lines 91-92).
LocksDestroyed == tdpc \in {"td_vm", "td_free", "td_done"}

\* The destructor has destroyed VM i and its mutex (lines 94-102).
VmDestroyed(i) == tdpc \in {"td_free", "td_done"} \/ (tdpc = "td_vm" /\ i < tdI)

\* The destructor has released the dataset and the caches (lines 104-112).
MemReleased == tdpc = "td_done"

\* An operation on a destroyed lock or on freed memory is undefined
\* behaviour: it is recorded in uaf, and the process goes on or aborts.
\* An aborted process (this, or the panic of lines 226 and 319) takes no
\* further step: every action has ~aborted in its guard.
UB(cond) ==
    IF cond THEN uaf' = TRUE /\ aborted' \in BOOLEAN
    ELSE UNCHANGED <<uaf, aborted>>

\* The key a light VM hashes with: the seed of its cache, when the VM was
\* bound to the cache as it is now.
LightKey(i) ==
    IF m_vm[i] \in Seeds /\ m_cache[i] = m_vm[i] THEN m_vm[i] ELSE Garbage

\* The key the full-dataset VM hashes with: the seed all items were built from.
FullKey ==
    IF m_vm[FULL_DATASET_VM] = DatasetVM
       /\ \E k \in Seeds : \A j \in Items : dataset[j] = k
    THEN dataset[0] ELSE Garbage

\* No partition is under study.
NoPart == [items |-> 0, hw |-> 0, stage |-> "none", n |-> 0, i |-> 0,
           ranges |-> <<>>]

\* The state the constructor leaves (lines 31-81): empty seeds, allocated
\* but uninitialized caches, no VM, and a dataset unless light mode is set
\* or its allocation failed.
ConstructedWith(budget, p) ==
    /\ m_index = 0
    /\ m_seed = [i \in Slots |-> ZeroSeed]
    /\ m_cache = [i \in Slots |-> Uninit]
    /\ m_vm = [i \in VMs |-> NoVM]
    /\ m_dataset \in {"null", "alloc"}
    /\ dataset = [j \in Items |-> Uninit]
    /\ m_setSeedCounter = 0
    /\ m_stopped = 0
    /\ dWriter = NoThread /\ dReaders = {}
    /\ cWriter = NoThread /\ cReaders = {}
    /\ vmMutex = [i \in VMs |-> NoThread]
    /\ pc = [t \in Threads |-> "idle"]
    /\ arg = [t \in Threads |-> ZeroSeed]
    /\ waited = [t \in Threads |-> FALSE]
    /\ late = [t \in Threads |-> FALSE]
    /\ after = [t \in Threads |-> FALSE]
    /\ numThreads = 0
    /\ worker = [w \in WorkerIds |-> "none"]
    /\ tdpc = "td_start" /\ tdI = 0
    /\ aborted = FALSE /\ uaf = FALSE /\ calls = budget
    /\ fullVmFailed = FALSE /\ settled = NoSeed
    /\ prevOld = "no" /\ evictedOld = NoSeed
    /\ fresh = 1
    /\ job = [t \in Threads |-> "none"]
    /\ num_running_jobs = 0
    /\ poolStopped = FALSE
    /\ afterQ = 0
    /\ part = p
    /\ tick = FALSE

Constructed(budget) == ConstructedWith(budget, NoPart)

Init == Constructed(MaxCalls)

\* ------------------------------------------------------ lock primitives
DFreeForWrite == dWriter = NoThread /\ dReaders = {}
CFreeForWrite == cWriter = NoThread /\ cReaders = {}
CFreeForRead == cWriter = NoThread

\* Seeds are opaque values compared for equality only, ZeroSeed apart: a
\* call may pass any seed already passed, or the next unused one.
PickSeed(s) == s <= fresh /\ fresh' = IF s = fresh THEN fresh + 1 ELSE fresh

\* A call with seed s starts on thread t and reaches label l; calls is what
\* is left of the call budget, late records that the stopped flag was set
\* when the call started, after that a set_seed with the same seed had
\* returned and no rotation to another seed had started since.
Enter(t, l, s) ==
    /\ pc[t] = "idle" /\ calls > 0
    /\ PickSeed(s)
    /\ calls' = calls - 1
    /\ pc' = [pc EXCEPT ![t] = l]
    /\ arg' = [arg EXCEPT ![t] = s]
    /\ late' = [late EXCEPT ![t] = (m_stopped = 1)]
    /\ after' = [after EXCEPT ![t] = (settled = s)]
    /\ UNCHANGED waited

\* A call starts on thread t and returns at once.
EnterReturn(t) ==
    /\ pc[t] = "idle" /\ calls > 0
    /\ calls' = calls - 1
    /\ UNCHANGED <<threadVars, fresh>>

\* A call returns: the thread is idle again, or, when the call was made by
\* a job of the work queue, back in the job's work callback.
Return(t) ==
    /\ pc' = [pc EXCEPT ![t] = IF job[t] = "none" THEN "idle" ELSE "j_after"]
    /\ arg' = [arg EXCEPT ![t] = ZeroSeed]
    /\ waited' = [waited EXCEPT ![t] = FALSE]
    /\ late' = [late EXCEPT ![t] = FALSE]
    /\ after' = [after EXCEPT ![t] = FALSE]

Goto(t, l) == pc' = [pc EXCEPT ![t] = l] /\ UNCHANGED <<arg, waited, late, after>>

\* A slot update that leaves the cache as it was.
InitCache_Skipped(i, seed) == UNCHANGED m_cache

\* randomx_init_cache(m_cache[i], seed), in place; released memory stays
\* released.
InitCache(i, seed) ==
    m_cache' = [m_cache EXCEPT ![i] = IF MemReleased THEN Freed ELSE seed]

\* Lines 212-229 and 305-322: under the slot's VM mutex, rebind the VM to the
\* slot's cache as it is after InitCache, or create it on first use.  ok is
\* whether randomx_create_vm succeeds with either flag set; when both
\* attempts fail the process panics (lines 226, 319).
BindOrCreateVm(i, ok) ==
    /\ vmMutex[i] = NoThread
    /\ IF m_vm[i] # NoVM
       THEN /\ m_vm' = [m_vm EXCEPT ![i] =
                           IF VmDestroyed(i) \/ MemReleased THEN Freed ELSE m_cache'[i]]
            /\ UB(VmDestroyed(i) \/ MemReleased)
       ELSE /\ m_vm' = [m_vm EXCEPT ![i] =
                           IF ~ok THEN NoVM
                           ELSE IF MemReleased THEN Freed ELSE m_cache'[i]]
            /\ IF ~ok THEN aborted' = TRUE /\ UNCHANGED uaf
               ELSE UB(VmDestroyed(i) \/ MemReleased)

\* --------------------------------------------------------------- set_seed
\* Lines 183-187: the call starts; a stopped hasher returns at once.
SetSeed_Enter(t, s) ==
    /\ ~aborted
    /\ UNCHANGED extVars
    /\ IF m_stopped = 1 THEN EnterReturn(t) ELSE Enter(t, "ss_dlock", s)
    /\ UNCHANGED <<memVars, m_dataset, atomVars, lockVars, buildVars, tdVars,
                   ubVars, ghostVars>>

\* Line 189: WriteLock lock(m_datasetLock).
SetSeed_DLock(t) ==
    /\ ~aborted
    /\ UNCHANGED extVars
    /\ pc[t] = "ss_dlock"
    /\ DFreeForWrite
    /\ dWriter' = t
    /\ UB(LocksDestroyed)
    /\ Goto(t, "ss_clock")
    /\ UNCHANGED <<memVars, m_dataset, atomVars, dReaders, cLock, vmMutex,
                   buildVars, tdVars, calls, ghostVars, fresh>>

\* set_seed without the equal-seed return of lines 194-197.
SetSeed_CLock_NoEarlyReturn(t) ==
    /\ ~aborted
    /\ UNCHANGED extVars
    /\ pc[t] = "ss_clock"
    /\ CFreeForWrite
    /\ UB(LocksDestroyed)
    /\ m_setSeedCounter' = m_setSeedCounter + 1
    /\ cWriter' = t
    /\ Goto(t, "ss_update")
    /\ UNCHANGED <<memVars, m_dataset, m_stopped, dLock, cReaders, vmMutex,
                   buildVars, tdVars, calls, ghostVars, fresh>>

\* Lines 190-197: uv_rwlock_wrlock(&m_cacheLock), then count the call; an
\* equal seed releases both locks and returns.
SetSeed_CLock(t) ==
    /\ ~aborted
    /\ UNCHANGED extVars
    /\ pc[t] = "ss_clock"
    /\ CFreeForWrite
    /\ UB(LocksDestroyed)
    /\ m_setSeedCounter' = m_setSeedCounter + 1
    /\ IF m_seed[m_index] = arg[t]
       THEN /\ dWriter' = NoThread
            /\ settled' = arg[t]
            /\ Return(t)
            /\ UNCHANGED cWriter
       ELSE /\ cWriter' = t
            /\ Goto(t, "ss_update")
            /\ UNCHANGED <<dWriter, settled>>
    /\ UNCHANGED <<memVars, m_dataset, m_stopped, dReaders, cReaders, vmMutex,
                   buildVars, tdVars, calls, fullVmFailed, prevOld, evictedOld,
                   fresh>>

\* The rotation without the flip of m_index: the new seed overwrites the
\* current slot.
SetSeed_Update_InPlace(t) ==
    /\ ~aborted
    /\ UNCHANGED extVars
    /\ pc[t] = "ss_update"
    /\ IF m_stopped = 1
       THEN /\ cWriter' = NoThread /\ dWriter' = NoThread
            /\ Return(t)
            /\ UNCHANGED <<m_seed, m_cache, m_vm, ubVars, settled,
                           prevOld, evictedOld>>
       ELSE /\ evictedOld' = NoSeed
            /\ prevOld' = prevOld
            /\ m_seed' = [m_seed EXCEPT ![m_index] = arg[t]]
            /\ InitCache(m_index, arg[t])
            /\ \E ok \in BOOLEAN : BindOrCreateVm(m_index, ok)
            /\ cWriter' = NoThread
            /\ IF m_dataset = "null"
               THEN dWriter' = NoThread /\ settled' = arg[t] /\ Return(t)
               ELSE Goto(t, "ss_rdlock") /\ settled' = NoSeed /\ UNCHANGED dWriter
    /\ UNCHANGED <<m_index, dataset, m_dataset, atomVars, dReaders, cReaders,
                   vmMutex, buildVars, tdVars, calls, fullVmFailed, fresh>>

\* Lines 200-234: a stopped hasher releases both locks and returns.  Else
\* the index flips, the new current slot gets the seed, a re-keyed cache and
\* a VM bound to it, and the cache write lock is released; without a
\* dataset the call returns (releasing the dataset write lock), with one it
\* goes on to the rebuild.
SetSeed_Update(t) ==
    /\ ~aborted
    /\ UNCHANGED extVars
    /\ pc[t] = "ss_update"
    /\ IF m_stopped = 1
       THEN /\ cWriter' = NoThread /\ dWriter' = NoThread
            /\ Return(t)
            /\ UNCHANGED <<m_index, m_seed, m_cache, m_vm, ubVars, settled,
                           prevOld, evictedOld>>
       ELSE /\ m_index' = Xor1(m_index)
            /\ evictedOld' = IF prevOld # "no" THEN m_seed[Xor1(m_index)] ELSE NoSeed
            /\ prevOld' = "no"
            /\ m_seed' = [m_seed EXCEPT ![Xor1(m_index)] = arg[t]]
            /\ InitCache(Xor1(m_index), arg[t])
            /\ \E ok \in BOOLEAN : BindOrCreateVm(Xor1(m_index), ok)
            /\ cWriter' = NoThread
            /\ IF m_dataset = "null"
               THEN dWriter' = NoThread /\ settled' = arg[t] /\ Return(t)
               ELSE Goto(t, "ss_rdlock") /\ settled' = NoSeed /\ UNCHANGED dWriter
    /\ UNCHANGED <<dataset, m_dataset, atomVars, dReaders, cReaders, vmMutex,
                   buildVars, tdVars, calls, fullVmFailed, fresh>>

\* The unsigned arithmetic of lines 252-253 wraps at the word size; the word
\* is uint32_t in the source and is scaled to 8 bits here.
WordSize == 256
Mul32(a, b) == (a * b) % WordSize
ItemsA(items, i, n) == Mul32(items, i) \div n
ItemsB(items, i, n) == Mul32(items, i + 1) \div n
RangeA(i, n) == ItemsA(NumItems, i, n)
RangeB(i, n) == ItemsB(NumItems, i, n)

\* The item count b - a of line 258, an unsigned difference.
Count32(a, b) == (b - a + WordSize) % WordSize

\* The call of line 258 writes past the end of the dataset.
Overrun(a, b) == a + Count32(a, b) > NumItems

\* The dataset built from the previous slot's cache.
InitDataset_PreviousCache(a, b) ==
    dataset' = [j \in Items |->
                   IF a <= j /\ j < a + Count32(a, b)
                   THEN (IF MemReleased THEN Freed ELSE m_cache[Xor1(m_index)])
                   ELSE dataset[j]]

\* randomx_init_dataset(m_dataset, m_cache[m_index], a, b - a): the b - a
\* items from a on are built from the current slot's cache.
InitDataset(a, b) ==
    dataset' = [j \in Items |->
                   IF a <= j /\ j < a + Count32(a, b)
                   THEN (IF MemReleased THEN Freed ELSE m_cache[m_index])
                   ELSE dataset[j]]

\* Lines 236-241: half of the hardware threads, when there is more than one.
HalfThreads(hw) == IF hw > 1 THEN hw \div 2 ELSE hw

\* Lines 235-245: the thread count (hw is the hint that
\* std::thread::hardware_concurrency gives), then ReadLock lock2(m_cacheLock).
SetSeed_RdLock(t) ==
    /\ ~aborted
    /\ UNCHANGED extVars
    /\ pc[t] = "ss_rdlock"
    /\ CFreeForRead
    /\ cReaders' = cReaders \cup {t}
    /\ \E hw \in HwHints : numThreads' = HalfThreads(hw)
    /\ UB(LocksDestroyed)
    /\ Goto(t, "ss_build")
    /\ UNCHANGED <<memVars, m_dataset, atomVars, dLock, cWriter, vmMutex,
                   worker, tdVars, calls, ghostVars, fresh>>

\* Lines 247-260: with more than one thread, start one worker per range.
SetSeed_Spawn(t) ==
    /\ ~aborted
    /\ UNCHANGED extVars
    /\ pc[t] = "ss_build"
    /\ numThreads > 1
    /\ worker' = [w \in WorkerIds |-> IF w < numThreads THEN "run" ELSE "none"]
    /\ Goto(t, "ss_join")
    /\ UNCHANGED <<memVars, m_dataset, atomVars, lockVars, numThreads, tdVars,
                   ubVars, calls, ghostVars, fresh>>

\* Lines 255-259: one worker builds its range.
Worker_Run(w) ==
    /\ ~aborted
    /\ UNCHANGED extVars
    /\ worker[w] = "run"
    /\ InitDataset(RangeA(w, numThreads), RangeB(w, numThreads))
    /\ worker' = [worker EXCEPT ![w] = "done"]
    /\ UB(MemReleased \/ Overrun(RangeA(w, numThreads), RangeB(w, numThreads)))
    /\ UNCHANGED <<m_index, m_seed, m_cache, m_vm, m_dataset, atomVars,
                   lockVars, threadVars, numThreads, tdVars, calls, ghostVars,
                   fresh>>

\* set_seed going on without joining its workers.
SetSeed_Join_NoWait(t) ==
    /\ ~aborted
    /\ UNCHANGED extVars
    /\ pc[t] = "ss_join"
    /\ Goto(t, "ss_fullvm")
    /\ UNCHANGED <<memVars, m_dataset, atomVars, lockVars, buildVars, tdVars,
                   ubVars, calls, ghostVars, fresh>>

\* Lines 262-264: join every worker.
SetSeed_Join(t) ==
    /\ ~aborted
    /\ UNCHANGED extVars
    /\ pc[t] = "ss_join"
    /\ \A w \in WorkerIds : w < numThreads => worker[w] = "done"
    /\ worker' = [w \in WorkerIds |-> "none"]
    /\ Goto(t, "ss_fullvm")
    /\ UNCHANGED <<memVars, m_dataset, atomVars, lockVars, numThreads, tdVars,
                   ubVars, calls, ghostVars, fresh>>

\* Lines 266-268: with one thread, build the whole dataset in place.
SetSeed_BuildSingle(t) ==
    /\ ~aborted
    /\ UNCHANGED extVars
    /\ pc[t] = "ss_build"
    /\ ~(numThreads > 1)
    /\ InitDataset(0, NumItems)
    /\ UB(MemReleased)
    /\ Goto(t, "ss_fullvm")
    /\ UNCHANGED <<m_index, m_seed, m_cache, m_vm, m_dataset, atomVars,
                   lockVars, buildVars, tdVars, calls, ghostVars, fresh>>

\* Lines 270-282: under its mutex, the full-dataset VM is created when there
\* is none; ok is whether randomx_create_vm succeeds with either flag set.
\* A failure is logged and leaves the VM null.
CreateFullVm(ok) ==
    /\ vmMutex[FULL_DATASET_VM] = NoThread
    /\ IF m_vm[FULL_DATASET_VM] = NoVM
       THEN /\ m_vm' = [m_vm EXCEPT ![FULL_DATASET_VM] =
                           IF ok THEN DatasetVM ELSE NoVM]
            /\ fullVmFailed' = (fullVmFailed \/ ~ok)
       ELSE UNCHANGED <<m_vm, fullVmFailed>>

\* Lines 270-286: create the full-dataset VM if needed, then release the
\* cache read lock and the dataset write lock, and return.
SetSeed_FullVm(t) ==
    /\ ~aborted
    /\ UNCHANGED extVars
    /\ pc[t] = "ss_fullvm"
    /\ \E ok \in BOOLEAN : CreateFullVm(ok)
    /\ cReaders' = cReaders \ {t}
    /\ dWriter' = NoThread
    /\ settled' = arg[t]
    /\ Return(t)
    /\ UNCHANGED <<m_index, m_seed, m_cache, dataset, m_dataset, atomVars,
                   dReaders, cWriter, vmMutex, buildVars, tdVars, ubVars, calls,
                   prevOld, evictedOld, fresh>>

\* ----------------------------------------------------------- set_old_seed
\* Line 288: the call starts.
SetOldSeed_Enter(t, s) ==
    /\ ~aborted
    /\ UNCHANGED extVars
    /\ Enter(t, "so_wait", s)
    /\ UNCHANGED <<memVars, m_dataset, atomVars, lockVars, buildVars, tdVars,
                   ubVars, ghostVars>>

\* set_old_seed without the poll of the rotation counter.
SetOldSeed_Wait_NoPoll(t) ==
    /\ ~aborted
    /\ UNCHANGED extVars
    /\ pc[t] = "so_wait"
    /\ Goto(t, "so_lock")
    /\ UNCHANGED <<memVars, m_dataset, atomVars, lockVars, buildVars, tdVars,
                   ubVars, calls, ghostVars, fresh>>

\* Lines 291-293: poll the rotation counter, sleeping while it is zero;
\* waited records that the call has slept, tick flips at every sleep.
SetOldSeed_Wait(t) ==
    /\ ~aborted
    /\ pc[t] = "so_wait"
    /\ IF m_setSeedCounter = 0
       THEN /\ waited' = [waited EXCEPT ![t] = TRUE]
            /\ tick' = ~tick
            /\ UNCHANGED <<pc, arg, late, after>>
       ELSE Goto(t, "so_lock") /\ tick' = FALSE
    /\ UNCHANGED <<asyncVars, part>>
    /\ UNCHANGED <<memVars, m_dataset, atomVars, lockVars, buildVars, tdVars,
                   ubVars, calls, ghostVars, fresh>>

\* Line 298: WriteLock lock(m_cacheLock).
SetOldSeed_Lock(t) ==
    /\ ~aborted
    /\ UNCHANGED extVars
    /\ pc[t] = "so_lock"
    /\ CFreeForWrite
    /\ cWriter' = t
    /\ UB(LocksDestroyed)
    /\ Goto(t, "so_update")
    /\ UNCHANGED <<memVars, m_dataset, atomVars, dLock, cReaders, vmMutex,
                   buildVars, tdVars, calls, ghostVars, fresh>>

\* set_old_seed writing the current slot.
OldIndex_Current == m_index

\* Line 300: the slot set_old_seed writes.
OldIndex == Xor1(m_index)

\* set_old_seed making the slot it writes the current one.
SetOldSeed_Update_Flips(t) ==
    /\ ~aborted
    /\ UNCHANGED extVars
    /\ pc[t] = "so_update"
    /\ m_index' = Xor1(m_index)
    /\ m_seed' = [m_seed EXCEPT ![OldIndex] = arg[t]]
    /\ InitCache(OldIndex, arg[t])
    /\ \E ok \in BOOLEAN : BindOrCreateVm(OldIndex, ok)
    /\ cWriter' = NoThread
    /\ prevOld' = IF waited[t] THEN "waited" ELSE "yes"
    /\ Return(t)
    /\ UNCHANGED <<dataset, m_dataset, atomVars, dLock, cReaders,
                   vmMutex, buildVars, tdVars, calls, fullVmFailed, settled,
                   evictedOld, fresh>>

\* Lines 300-325: the non-current slot gets the seed, a re-keyed cache and a
\* VM bound to it; the cache write lock is released and the call returns.
SetOldSeed_Update(t) ==
    /\ ~aborted
    /\ UNCHANGED extVars
    /\ pc[t] = "so_update"
    /\ m_seed' = [m_seed EXCEPT ![OldIndex] = arg[t]]
    /\ InitCache(OldIndex, arg[t])
    /\ \E ok \in BOOLEAN : BindOrCreateVm(OldIndex, ok)
    /\ cWriter' = NoThread
    /\ prevOld' = IF waited[t] THEN "waited" ELSE "yes"
    /\ Return(t)
    /\ UNCHANGED <<m_index, dataset, m_dataset, atomVars, dLock, cReaders,
                   vmMutex, buildVars, tdVars, calls, fullVmFailed, settled,
                   evictedOld, fresh>>

\* -------------------------------------------------------------- calculate
\* A writer is blocked on the dataset lock (lines 189 and 87).
DWriterWaiting == tdpc = "td_dlock" \/ \E u \in Threads : pc[u] = "ss_dlock"

\* uv_rwlock_tryrdlock(&m_datasetLock) == 0: it succeeds only when no writer
\* holds the lock, and may report busy when a writer holds it or is blocked
\* on it; on a destroyed lock either answer may come.
TryRdLock(got) ==
    IF got THEN dWriter = NoThread
    ELSE dWriter # NoThread \/ DWriterWaiting \/ LocksDestroyed

\* calculate with a blocking read lock on the dataset lock.
Calculate_Enter_Blocking(t, s) ==
    /\ ~aborted
    /\ UNCHANGED extVars
    /\ dWriter = NoThread
    /\ dReaders' = dReaders \cup {t}
    /\ Enter(t, "c_dstop", s)
    /\ UB(LocksDestroyed)
    /\ UNCHANGED <<memVars, m_dataset, atomVars, dWriter, cLock, vmMutex,
                   buildVars, tdVars, ghostVars>>

\* Lines 327-331: the call starts with the non-blocking dataset read lock.
Calculate_Enter(t, s) ==
    /\ ~aborted
    /\ UNCHANGED extVars
    /\ \E got \in BOOLEAN :
          /\ TryRdLock(got)
          /\ IF got
             THEN dReaders' = dReaders \cup {t} /\ Enter(t, "c_dstop", s)
             ELSE UNCHANGED dReaders /\ Enter(t, "c_clock", s)
    /\ UB(LocksDestroyed)
    /\ UNCHANGED <<memVars, m_dataset, atomVars, dWriter, cLock, vmMutex,
                   buildVars, tdVars, ghostVars>>

\* Lines 333-335: a stopped hasher releases the dataset read lock and fails.
Calculate_DStop(t) ==
    /\ ~aborted
    /\ UNCHANGED extVars
    /\ pc[t] = "c_dstop"
    /\ IF m_stopped = 1
       THEN dReaders' = dReaders \ {t} /\ Return(t)
       ELSE Goto(t, "c_dmutex") /\ UNCHANGED dReaders
    /\ UNCHANGED <<memVars, m_dataset, atomVars, dWriter, cLock, vmMutex,
                   buildVars, tdVars, ubVars, calls, ghostVars, fresh>>

\* The test of line 339 without its null check of the VM.
FullMatch_NoVmTest(t) == arg[t] = m_seed[m_index]

\* Line 339: the full-dataset VM exists and the caller's seed is current.
FullMatch(t) == m_vm[FULL_DATASET_VM] # NoVM /\ arg[t] = m_seed[m_index]

\* calculate keeping the dataset read lock when it falls through to the
\* cache path.
Calculate_DMutex_KeepsLock(t) ==
    /\ ~aborted
    /\ UNCHANGED extVars
    /\ pc[t] = "c_dmutex"
    /\ vmMutex[FULL_DATASET_VM] = NoThread
    /\ UB(VmDestroyed(FULL_DATASET_VM))
    /\ IF FullMatch(t)
       THEN /\ vmMutex' = [vmMutex EXCEPT ![FULL_DATASET_VM] = t]
            /\ Goto(t, "c_dhash")
       ELSE /\ Goto(t, "c_clock")
            /\ UNCHANGED vmMutex
    /\ UNCHANGED <<memVars, m_dataset, atomVars, dLock, cLock,
                   buildVars, tdVars, calls, ghostVars, fresh>>

\* Lines 337-339 and 342-343: under the full-dataset VM's mutex, test the
\* VM and the seed; on a mismatch release the mutex and the dataset read
\* lock and go on to the cache path.
Calculate_DMutex(t) ==
    /\ ~aborted
    /\ UNCHANGED extVars
    /\ pc[t] = "c_dmutex"
    /\ vmMutex[FULL_DATASET_VM] = NoThread
    /\ UB(VmDestroyed(FULL_DATASET_VM))
    /\ IF FullMatch(t)
       THEN /\ vmMutex' = [vmMutex EXCEPT ![FULL_DATASET_VM] = t]
            /\ Goto(t, "c_dhash")
            /\ UNCHANGED dReaders
       ELSE /\ dReaders' = dReaders \ {t}
            /\ Goto(t, "c_clock")
            /\ UNCHANGED vmMutex
    /\ UNCHANGED <<memVars, m_dataset, atomVars, dWriter, cLock,
                   buildVars, tdVars, calls, ghostVars, fresh>>

\* Lines 340-341: randomx_calculate_hash with the full-dataset VM is over;
\* the mutex and the dataset read lock are released; return true.
Calculate_DHash(t) ==
    /\ ~aborted
    /\ UNCHANGED extVars
    /\ pc[t] = "c_dhash"
    /\ vmMutex' = [vmMutex EXCEPT ![FULL_DATASET_VM] = NoThread]
    /\ dReaders' = dReaders \ {t}
    /\ Return(t)
    /\ UB(VmDestroyed(FULL_DATASET_VM) \/ MemReleased)
    /\ UNCHANGED <<memVars, m_dataset, atomVars, dWriter, cLock,
                   buildVars, tdVars, calls, ghostVars, fresh>>

\* Line 346: ReadLock lock(m_cacheLock).
Calculate_CLock(t) ==
    /\ ~aborted
    /\ UNCHANGED extVars
    /\ pc[t] = "c_clock"
    /\ CFreeForRead
    /\ cReaders' = cReaders \cup {t}
    /\ UB(LocksDestroyed)
    /\ Goto(t, "c_cstop")
    /\ UNCHANGED <<memVars, m_dataset, atomVars, dLock, cWriter, vmMutex,
                   buildVars, tdVars, calls, ghostVars, fresh>>

\* calculate returning from a stopped hasher with the cache read lock held.
Calculate_CStop_KeepsLock(t) ==
    /\ ~aborted
    /\ UNCHANGED extVars
    /\ pc[t] = "c_cstop"
    /\ IF m_stopped = 1
       THEN Return(t)
       ELSE Goto(t, "c_cmutex")
    /\ UNCHANGED <<memVars, m_dataset, atomVars, dLock, cLock, vmMutex,
                   buildVars, tdVars, ubVars, calls, ghostVars, fresh>>

\* Lines 348-350: a stopped hasher releases the cache read lock and fails.
Calculate_CStop(t) ==
    /\ ~aborted
    /\ UNCHANGED extVars
    /\ pc[t] = "c_cstop"
    /\ IF m_stopped = 1
       THEN cReaders' = cReaders \ {t} /\ Return(t)
       ELSE Goto(t, "c_cmutex") /\ UNCHANGED cReaders
    /\ UNCHANGED <<memVars, m_dataset, atomVars, dLock, cWriter, vmMutex,
                   buildVars, tdVars, ubVars, calls, ghostVars, fresh>>

\* The slot test without its seed comparison.
SlotMatch_NoSeedTest(t, i) == m_vm[i] # NoVM

\* Lines 354 and 364: slot i has a VM and holds the caller's seed.
SlotMatch(t, i) == m_vm[i] # NoVM /\ arg[t] = m_seed[i]

\* calculate using the current slot's VM without waiting for its mutex.
Calculate_CMutex_NoWait(t) ==
    /\ ~aborted
    /\ UNCHANGED extVars
    /\ pc[t] = "c_cmutex"
    /\ UB(VmDestroyed(m_index))
    /\ IF SlotMatch(t, m_index)
       THEN /\ vmMutex' = [vmMutex EXCEPT ![m_index] = t]
            /\ Goto(t, "c_chash")
       ELSE /\ Goto(t, "c_pmutex")
            /\ UNCHANGED vmMutex
    /\ UNCHANGED <<memVars, m_dataset, atomVars, dLock, cLock,
                   buildVars, tdVars, calls, ghostVars, fresh>>

\* Lines 353-354 and 357-358: under the current slot's VM mutex, test the VM
\* and the seed; on a mismatch release the mutex.
Calculate_CMutex(t) ==
    /\ ~aborted
    /\ UNCHANGED extVars
    /\ pc[t] = "c_cmutex"
    /\ vmMutex[m_index] = NoThread
    /\ UB(VmDestroyed(m_index))
    /\ IF SlotMatch(t, m_index)
       THEN /\ vmMutex' = [vmMutex EXCEPT ![m_index] = t]
            /\ Goto(t, "c_chash")
       ELSE /\ Goto(t, "c_pmutex")
            /\ UNCHANGED vmMutex
    /\ UNCHANGED <<memVars, m_dataset, atomVars, dLock, cLock,
                   buildVars, tdVars, calls, ghostVars, fresh>>

\* randomx_calculate_hash with slot i's VM is over: its mutex and the cache
\* read lock are released and the call returns true.
HashedWithSlot(t, i) ==
    /\ vmMutex' = [vmMutex EXCEPT ![i] = NoThread]
    /\ cReaders' = cReaders \ {t}
    /\ Return(t)
    /\ UB(VmDestroyed(i) \/ MemReleased)

\* Lines 355-356: hash with the current slot's VM.
Calculate_CHash(t) ==
    /\ ~aborted
    /\ UNCHANGED extVars
    /\ pc[t] = "c_chash"
    /\ HashedWithSlot(t, m_index)
    /\ UNCHANGED <<memVars, m_dataset, atomVars, dLock, cWriter,
                   buildVars, tdVars, calls, ghostVars, fresh>>

\* Lines 360-364: under the previous slot's VM mutex, test the VM and the
\* seed.
Calculate_PMutex(t) ==
    /\ ~aborted
    /\ UNCHANGED extVars
    /\ pc[t] = "c_pmutex"
    /\ vmMutex[Xor1(m_index)] = NoThread
    /\ UB(VmDestroyed(Xor1(m_index)))
    /\ vmMutex' = [vmMutex EXCEPT ![Xor1(m_index)] = t]
    /\ IF SlotMatch(t, Xor1(m_index))
       THEN Goto(t, "c_phash")
       ELSE Goto(t, "c_false")
    /\ UNCHANGED <<memVars, m_dataset, atomVars, dLock, cLock,
                   buildVars, tdVars, calls, ghostVars, fresh>>

\* Lines 365-366: hash with the previous slot's VM.
Calculate_PHash(t) ==
    /\ ~aborted
    /\ UNCHANGED extVars
    /\ pc[t] = "c_phash"
    /\ HashedWithSlot(t, Xor1(m_index))
    /\ UNCHANGED <<memVars, m_dataset, atomVars, dLock, cWriter,
                   buildVars, tdVars, calls, ghostVars, fresh>>

\* Lines 369-370: no slot matched; the mutex and the cache read lock are
\* released and the call returns false.
Calculate_False(t) ==
    /\ ~aborted
    /\ UNCHANGED extVars
    /\ pc[t] = "c_false"
    /\ vmMutex' = [vmMutex EXCEPT ![Xor1(m_index)] = NoThread]
    /\ cReaders' = cReaders \ {t}
    /\ Return(t)
    /\ UNCHANGED <<memVars, m_dataset, atomVars, dLock, cWriter,
                   buildVars, tdVars, ubVars, calls, ghostVars, fresh>>

\* ------------------------------------------------------------- destructor
\* Line 85: m_stopped.exchange(1).
Destroy_Stop ==
    /\ ~aborted
    /\ UNCHANGED extVars
    /\ tdpc = "td_start"
    /\ m_stopped' = 1
    /\ tdpc' = "td_dlock"
    /\ UNCHANGED <<memVars, m_dataset, m_setSeedCounter, lockVars, threadVars,
                   buildVars, tdI, ubVars, calls, ghostVars, fresh>>

\* Line 87: WriteLock lock(m_datasetLock).
Destroy_DLock ==
    /\ ~aborted
    /\ UNCHANGED extVars
    /\ tdpc = "td_dlock"
    /\ DFreeForWrite
    /\ dWriter' = TD
    /\ tdpc' = "td_clock"
    /\ UNCHANGED <<memVars, m_dataset, atomVars, dReaders, cLock, vmMutex,
                   threadVars, buildVars, tdI, ubVars, calls, ghostVars, fresh>>

\* The destructor without the cache write lock of line 88.
Destroy_CLock_NoCacheLock ==
    /\ ~aborted
    /\ UNCHANGED extVars
    /\ tdpc = "td_clock"
    /\ dWriter' = NoThread
    /\ tdpc' = "td_locks"
    /\ UNCHANGED <<memVars, m_dataset, atomVars, dReaders, cLock, vmMutex,
                   threadVars, buildVars, tdI, ubVars, calls, ghostVars, fresh>>

\* Lines 88-89: WriteLock lock2(m_cacheLock), then both locks are released.
Destroy_CLock ==
    /\ ~aborted
    /\ UNCHANGED extVars
    /\ tdpc = "td_clock"
    /\ CFreeForWrite
    /\ dWriter' = NoThread
    /\ tdpc' = "td_locks"
    /\ UNCHANGED <<memVars, m_dataset, atomVars, dReaders, cLock, vmMutex,
                   threadVars, buildVars, tdI, ubVars, calls, ghostVars, fresh>>

\* Lines 91-92: both read/write locks are destroyed; destroying a lock that
\* is held is undefined.
Destroy_Locks ==
    /\ ~aborted
    /\ UNCHANGED extVars
    /\ tdpc = "td_locks"
    /\ tdpc' = "td_vm" /\ tdI' = 0
    /\ UB(dWriter # NoThread \/ dReaders # {} \/ cWriter # NoThread \/ cReaders # {})
    /\ UNCHANGED <<memVars, m_dataset, atomVars, lockVars, threadVars,
                   buildVars, calls, ghostVars, fresh>>

\* Lines 94-102: under its mutex, VM tdI is destroyed if there is one (the
\* pointer is left dangling); then the mutex is destroyed.
Destroy_Vm ==
    /\ ~aborted
    /\ UNCHANGED extVars
    /\ tdpc = "td_vm"
    /\ vmMutex[tdI] = NoThread
    /\ m_vm' = [m_vm EXCEPT ![tdI] = IF m_vm[tdI] = NoVM THEN NoVM ELSE Freed]
    /\ IF tdI = FULL_DATASET_VM
       THEN tdpc' = "td_free" /\ UNCHANGED tdI
       ELSE tdI' = tdI + 1 /\ UNCHANGED tdpc
    /\ UNCHANGED <<m_index, m_seed, m_cache, dataset, m_dataset, atomVars,
                   lockVars, threadVars, buildVars, ubVars, calls, ghostVars,
                   fresh>>

\* Lines 104-112: the dataset and both caches are released.
Destroy_Free ==
    /\ ~aborted
    /\ UNCHANGED extVars
    /\ tdpc = "td_free"
    /\ dataset' = [j \in Items |-> IF m_dataset = "null" THEN dataset[j] ELSE Freed]
    /\ m_cache' = [i \in Slots |-> Freed]
    /\ tdpc' = "td_done"
    /\ UNCHANGED <<m_index, m_seed, m_vm, m_dataset, atomVars, lockVars,
                   threadVars, buildVars, tdI, ubVars, calls, ghostVars, fresh>>

\* ---------------------------------------------------------- specification
Next ==
    \/ \E t \in Threads, s \in Seeds : SetSeed_Enter(t, s)
    \/ \E t \in Threads : SetSeed_DLock(t)
    \/ \E t \in Threads : SetSeed_CLock(t)
    \/ \E t \in Threads : SetSeed_Update(t)
    \/ \E t \in Threads : SetSeed_RdLock(t)
    \/ \E t \in Threads : SetSeed_Spawn(t)
    \/ \E w \in WorkerIds : Worker_Run(w)
    \/ \E t \in Threads : SetSeed_Join(t)
    \/ \E t \in Threads : SetSeed_BuildSingle(t)
    \/ \E t \in Threads : SetSeed_FullVm(t)
    \/ \E t \in Threads, s \in Seeds : SetOldSeed_Enter(t, s)
    \/ \E t \in Threads : SetOldSeed_Wait(t)
    \/ \E t \in Threads : SetOldSeed_Lock(t)
    \/ \E t \in Threads : SetOldSeed_Update(t)
    \/ \E t \in Threads, s \in Seeds : Calculate_Enter(t, s)
    \/ \E t \in Threads : Calculate_DStop(t)
    \/ \E t \in Threads : Calculate_DMutex(t)
    \/ \E t \in Threads : Calculate_DHash(t)
    \/ \E t \in Threads : Calculate_CLock(t)
    \/ \E t \in Threads : Calculate_CStop(t)
    \/ \E t \in Threads : Calculate_CMutex(t)
    \/ \E t \in Threads : Calculate_CHash(t)
    \/ \E t \in Threads : Calculate_PMutex(t)
    \/ \E t \in Threads : Calculate_PHash(t)
    \/ \E t \in Threads : Calculate_False(t)
    \/ Destroy_Stop
    \/ Destroy_DLock
    \/ Destroy_CLock
    \/ Destroy_Locks
    \/ Destroy_Vm
    \/ Destroy_Free

Spec == Init /\ [][Next]_vars

\* One caller, one call after another, and no teardown: the setting of the
\* sequential scenarios, with a call budget of its own.
Caller == "t1"

InitSeq == Constructed(SeqCalls)

NextSeq ==
    \/ \E s \in Seeds : SetSeed_Enter(Caller, s)
    \/ SetSeed_DLock(Caller)
    \/ SetSeed_CLock(Caller)
    \/ SetSeed_Update(Caller)
    \/ SetSeed_RdLock(Caller)
    \/ SetSeed_Spawn(Caller)
    \/ \E w \in WorkerIds : Worker_Run(w)
    \/ SetSeed_Join(Caller)
    \/ SetSeed_BuildSingle(Caller)
    \/ SetSeed_FullVm(Caller)
    \/ \E s \in Seeds : SetOldSeed_Enter(Caller, s)
    \/ SetOldSeed_Wait(Caller)
    \/ SetOldSeed_Lock(Caller)
    \/ SetOldSeed_Update(Caller)
    \/ \E s \in Seeds : Calculate_Enter(Caller, s)
    \/ Calculate_DStop(Caller)
    \/ Calculate_DMutex(Caller)
    \/ Calculate_DHash(Caller)
    \/ Calculate_CLock(Caller)
    \/ Calculate_CStop(Caller)
    \/ Calculate_CMutex(Caller)
    \/ Calculate_CHash(Caller)
    \/ Calculate_PMutex(Caller)
    \/ Calculate_PHash(Caller)
    \/ Calculate_False(Caller)

SpecSeq == InitSeq /\ [][NextSeq]_vars

\* The partition of lines 235-268 on its own: the item count and the hint
\* of std::thread::hardware_concurrency are drawn at the start, the thread
\* count and then the sub-ranges are computed as set_seed computes them. A
\* range is its first item and its item count, the two values handed to
\* randomx_init_dataset.
InitRange ==
    \E k \in 1..MaxRangeItems, h \in 0..MaxHw :
        ConstructedWith(0, [items |-> k, hw |-> h, stage |-> "start", n |-> 0,
                            i |-> 0, ranges |-> <<>>])

\* Lines 236-241: numThreads.
Range_Threads ==
    /\ part.stage = "start"
    /\ part' = [part EXCEPT !.stage = "split", !.n = HalfThreads(part.hw)]
    /\ UNCHANGED <<memVars, m_dataset, atomVars, lockVars, threadVars,
                   buildVars, tdVars, ubVars, calls, ghostVars, fresh,
                   asyncVars, tick>>

\* Lines 251-254 and 258: the range of worker i.
Range_Spawn ==
    /\ part.stage = "split"
    /\ part.n > 1
    /\ LET a == ItemsA(part.items, part.i, part.n)
           b == ItemsB(part.items, part.i, part.n)
       IN  part' = [part EXCEPT
                      !.ranges = Append(@, [a |-> a, cnt |-> Count32(a, b)]),
                      !.i = @ + 1,
                      !.stage = IF part.i + 1 < part.n THEN "split" ELSE "done"]
    /\ UNCHANGED <<memVars, m_dataset, atomVars, lockVars, threadVars,
                   buildVars, tdVars, ubVars, calls, ghostVars, fresh,
                   asyncVars, tick>>

\* Lines 266-268: one range for the whole dataset.
Range_Single ==
    /\ part.stage = "split"
    /\ ~(part.n > 1)
    /\ part' = [part EXCEPT !.ranges = <<[a |-> 0, cnt |-> part.items]>>,
                            !.stage = "done"]
    /\ UNCHANGED <<memVars, m_dataset, atomVars, lockVars, threadVars,
                   buildVars, tdVars, ubVars, calls, ghostVars, fresh,
                   asyncVars, tick>>

NextRange ==
    \/ Range_Threads
    \/ Range_Spawn
    \/ Range_Single

SpecRange == InitRange /\ [][NextRange]_vars

\* ------------------------------- set_seed_async and set_old_seed_async
\* Lines 133-137 and 166-170: a thread of the work queue starts the work
\* callback of a queued job of kind k ("seed" for set_seed_async, "old" for
\* set_old_seed_async) with seed s; the callback first increments the job
\* counter.
Job_Begin(t, k, s) ==
    /\ ~aborted
    /\ pc[t] = "idle" /\ job[t] = "none" /\ calls > 0
    /\ PickSeed(s)
    /\ calls' = calls - 1
    /\ num_running_jobs' = num_running_jobs + 1
    /\ job' = [job EXCEPT ![t] = k]
    /\ pc' = [pc EXCEPT ![t] = "j_check"]
    /\ arg' = [arg EXCEPT ![t] = s]
    /\ UNCHANGED <<memVars, m_dataset, atomVars, lockVars, waited, late, after,
                   buildVars, tdVars, ubVars, ghostVars, poolStopped, afterQ,
                   part, tick>>

\* Lines 138 and 171: if (!work->pool->stopped()); a stopped pool skips the
\* body and the work callback returns.
Job_Check(t) ==
    /\ ~aborted
    /\ pc[t] = "j_check"
    /\ Goto(t, IF poolStopped THEN "j_done" ELSE "j_call")
    /\ UNCHANGED <<memVars, m_dataset, atomVars, lockVars, buildVars, tdVars,
                   ubVars, calls, ghostVars, fresh, extVars>>

\* Lines 139 and 172: the body calls set_seed or set_old_seed with the
\* job's seed; a set_seed on a stopped hasher returns at once (line 185).
Job_Call(t) ==
    /\ ~aborted
    /\ pc[t] = "j_call"
    /\ IF job[t] = "seed" /\ m_stopped = 1
       THEN Goto(t, "j_done")
       ELSE /\ pc' = [pc EXCEPT ![t] =
                         IF job[t] = "seed" THEN "ss_dlock" ELSE "so_wait"]
            /\ late' = [late EXCEPT ![t] = (m_stopped = 1)]
            /\ after' = [after EXCEPT ![t] = (settled = arg[t])]
            /\ UNCHANGED <<arg, waited>>
    /\ UNCHANGED <<memVars, m_dataset, atomVars, lockVars, buildVars, tdVars,
                   ubVars, calls, ghostVars, fresh, extVars>>

\* Lines 141 and 174: the work callback returns; its thread is free for the
\* next job and the after-work callback is due on the loop thread.
Job_WorkDone(t) ==
    /\ ~aborted
    /\ pc[t] = "j_done"
    /\ job' = [job EXCEPT ![t] = "none"]
    /\ afterQ' = afterQ + 1
    /\ pc' = [pc EXCEPT ![t] = "idle"]
    /\ arg' = [arg EXCEPT ![t] = ZeroSeed]
    /\ UNCHANGED <<memVars, m_dataset, atomVars, lockVars, waited, late, after,
                   buildVars, tdVars, ubVars, calls, ghostVars, fresh,
                   num_running_jobs, poolStopped, part, tick>>

\* An after-work callback that leaves the counter alone.
Job_After_NoDecrement ==
    /\ ~aborted
    /\ afterQ > 0
    /\ afterQ' = afterQ - 1
    /\ UNCHANGED <<memVars, m_dataset, atomVars, lockVars, threadVars,
                   buildVars, tdVars, ubVars, calls, ghostVars, fresh,
                   job, num_running_jobs, poolStopped, part, tick>>

\* Lines 142-146 and 175-179: the after-work callback deletes the job and
\* decrements the job counter.
Job_After ==
    /\ ~aborted
    /\ afterQ > 0
    /\ afterQ' = afterQ - 1
    /\ num_running_jobs' = num_running_jobs - 1
    /\ UNCHANGED <<memVars, m_dataset, atomVars, lockVars, threadVars,
                   buildVars, tdVars, ubVars, calls, ghostVars, fresh,
                   job, poolStopped, part, tick>>

\* The pool is stopped: from now on pool->stopped() of lines 138 and 171 is
\* true.
Pool_Stop ==
    /\ ~aborted
    /\ ~poolStopped
    /\ poolStopped' = TRUE
    /\ UNCHANGED <<memVars, m_dataset, atomVars, lockVars, threadVars,
                   buildVars, tdVars, ubVars, calls, ghostVars, fresh,
                   job, num_running_jobs, afterQ, part, tick>>

\* The hasher driven through the work queue only: every set_seed and
\* set_old_seed is the body of a job.
JobKinds == {"seed", "old"}

InitAsync == Constructed(MaxJobs)

NextAsync ==
    \/ \E t \in Threads, k \in JobKinds, s \in Seeds : Job_Begin(t, k, s)
    \/ \E t \in Threads : Job_Check(t)
    \/ \E t \in Threads : Job_Call(t)
    \/ \E t \in Threads : Job_WorkDone(t)
    \/ Job_After
    \/ Pool_Stop
    \/ \E t \in Threads : SetSeed_DLock(t)
    \/ \E t \in Threads : SetSeed_CLock(t)
    \/ \E t \in Threads : SetSeed_Update(t)
    \/ \E t \in Threads : SetSeed_RdLock(t)
    \/ \E t \in Threads : SetSeed_Spawn(t)
    \/ \E w \in WorkerIds : Worker_Run(w)
    \/ \E t \in Threads : SetSeed_Join(t)
    \/ \E t \in Threads : SetSeed_BuildSingle(t)
    \/ \E t \in Threads : SetSeed_FullVm(t)
    \/ \E t \in Threads : SetOldSeed_Wait(t)
    \/ \E t \in Threads : SetOldSeed_Lock(t)
    \/ \E t \in Threads : SetOldSeed_Update(t)
    \/ Destroy_Stop
    \/ Destroy_DLock
    \/ Destroy_CLock
    \/ Destroy_Locks
    \/ Destroy_Vm
    \/ Destroy_Free

SpecAsync == InitAsync /\ [][NextAsync]_vars

\* The rotations and the teardown under a fair scheduler: a thread inside
\* set_seed or set_old_seed, a rebuild worker and the destructor each take
\* their next step when it stays possible. When a call starts is the
\* caller's choice and is not forced.
InitLive == Constructed(LiveCalls)

Running(t) ==
    \/ SetSeed_DLock(t)
    \/ SetSeed_CLock(t)
    \/ SetSeed_Update(t)
    \/ SetSeed_RdLock(t)
    \/ SetSeed_Spawn(t)
    \/ SetSeed_Join(t)
    \/ SetSeed_BuildSingle(t)
    \/ SetSeed_FullVm(t)
    \/ SetOldSeed_Wait(t)
    \/ SetOldSeed_Lock(t)
    \/ SetOldSeed_Update(t)

Destructor ==
    \/ Destroy_Stop
    \/ Destroy_DLock
    \/ Destroy_CLock
    \/ Destroy_Locks
    \/ Destroy_Vm
    \/ Destroy_Free

NextLive ==
    \/ \E t \in Threads, s \in Seeds : SetSeed_Enter(t, s)
    \/ \E t \in Threads : SetSeed_DLock(t)
    \/ \E t \in Threads : SetSeed_CLock(t)
    \/ \E t \in Threads : SetSeed_Update(t)
    \/ \E t \in Threads : SetSeed_RdLock(t)
    \/ \E t \in Threads : SetSeed_Spawn(t)
    \/ \E w \in WorkerIds : Worker_Run(w)
    \/ \E t \in Threads : SetSeed_Join(t)
    \/ \E t \in Threads : SetSeed_BuildSingle(t)
    \/ \E t \in Threads : SetSeed_FullVm(t)
    \/ \E t \in Threads, s \in Seeds : SetOldSeed_Enter(t, s)
    \/ \E t \in Threads : SetOldSeed_Wait(t)
    \/ \E t \in Threads : SetOldSeed_Lock(t)
    \/ \E t \in Threads : SetOldSeed_Update(t)
    \/ Destroy_Stop
    \/ Destroy_DLock
    \/ Destroy_CLock
    \/ Destroy_Locks
    \/ Destroy_Vm
    \/ Destroy_Free

Fairness ==
    /\ \A t \in Threads : WF_vars(Running(t))
    /\ WF_vars(\E w \in WorkerIds : Worker_Run(w))
    /\ WF_vars(Destructor)

SpecLive == InitLive /\ [][NextLive]_vars /\ Fairness

\* ------------------------------------------------------------- properties
\* C1: under every interleaving of calculate, set_seed, set_old_seed and
\* the destructor, a calculate that is computing a hash (and so returns
\* true) uses a VM keyed by the caller's seed: the full-dataset VM through
\* a dataset built entirely from that seed, a slot's VM through the slot's
\* cache; a calculate computes a hash only when a slot with a VM holds the
\* caller's seed, and its final "return false" is reached only when no slot
\* does.
C1_HashKeyedByCallerSeed ==
    \A t \in Threads :
        /\ pc[t] = "c_dhash" => FullKey = arg[t]
        /\ pc[t] = "c_chash" => LightKey(m_index) = arg[t]
        /\ pc[t] = "c_phash" => LightKey(Xor1(m_index)) = arg[t]
        /\ pc[t] \in {"c_dhash", "c_chash", "c_phash"} =>
               \E i \in Slots : SlotMatch(t, i)
        /\ pc[t] = "c_false" => \A i \in Slots : ~SlotMatch(t, i)

\* C1 witness: a calculate hashes with the previous slot's VM for a seed
\* that a rotation made previous, while another thread's set_seed is
\* rebuilding the dataset.
C1_Witness ==
    \E t, u \in Threads :
        /\ pc[t] = "c_phash" /\ arg[t] # ZeroSeed
        /\ pc[u] \in {"ss_build", "ss_join"}

\* C2 as stated: a calculate(msg, S) that starts when a set_seed(S) has
\* returned, with no rotation to another seed started since then and the
\* hasher not stopped, does not come to its final "return false"; this for
\* every S, the all-zero seed of a newly constructed hasher included.
C2_SettledSeedHashes ==
    \A t \in Threads :
        (after[t] /\ settled = arg[t] /\ m_stopped = 0) => pc[t] # "c_false"

\* The seeds calculate can succeed for: those of the slots that have a VM.
Live == {m_seed[i] : i \in {j \in Slots : m_vm[j] # NoVM}}

\* C3: a set_seed to a seed other than the current one flips the index,
\* makes the new seed the current slot's and leaves the seed that was
\* current as the previous slot's; the live seeds are then exactly these
\* two (one, when no seed was current before the first rotation), so the
\* seed of the old previous slot is evicted whoever placed it.  calculate
\* hashes only for live seeds and reaches its final "return false" only for
\* seeds that are not live.
C3_RotationKeepsTwoSeeds ==
    /\ [][\A t \in Threads :
              (pc[t] = "ss_update" /\ pc'[t] # "ss_update" /\ m_stopped = 0 /\ ~aborted') =>
                  /\ m_index' = Xor1(m_index)
                  /\ m_seed'[m_index'] = arg[t]
                  /\ LightKey(m_index)' = arg[t]
                  /\ m_seed'[Xor1(m_index')] = m_seed[m_index]
                  /\ Live' = {arg[t]} \cup
                              (IF m_vm[m_index] # NoVM THEN {m_seed[m_index]} ELSE {})]_vars
    /\ [](\A t \in Threads :
              /\ pc[t] \in {"c_dhash", "c_chash", "c_phash"} => arg[t] \in Live
              /\ pc[t] = "c_false" => arg[t] \notin Live)

\* C3 witness: after set_seed(1), set_seed(2), set_old_seed(1), set_seed(3),
\* a calculate for seed 1 reaches its final "return false": the third
\* rotation evicted the seed set_old_seed had placed, 3 is current and 2 is
\* previous.
C3_Witness ==
    /\ pc[Caller] = "c_false" /\ arg[Caller] = 1
    /\ evictedOld = 1
    /\ m_setSeedCounter = 3
    /\ m_seed[m_index] = 3 /\ m_seed[Xor1(m_index)] = 2

\* C4 as stated: a rotation call that starts after the stopped flag is set
\* returns without modifying a slot's seed, cache or VM, the epoch index or
\* the dataset.
C4_LateCallsWriteNothing ==
    [][\A t \in Threads :
          (late[t] /\ pc'[t] # pc[t]) => UNCHANGED <<m_index, m_seed, m_cache, m_vm, dataset>>]_vars

\* C5: a set_old_seed holds the cache write lock for its slot write only
\* when the rotation counter is positive, and then no set_seed is between
\* its increment of the counter and the end of its slot update; before that
\* point the call changes neither slot; when its write is done the
\* non-current slot holds its seed with a VM keyed by it, so that calculate
\* succeeds for that seed.
C5_OldSeedWaitsForRotation ==
    /\ [](\A t \in Threads :
              pc[t] = "so_update" =>
                  /\ m_setSeedCounter > 0
                  /\ cWriter = t
                  /\ \A u \in Threads : pc[u] # "ss_update")
    /\ [][\A t \in Threads :
              (/\ pc[t] \in {"idle", "so_wait", "so_lock"}
               /\ pc'[t] \in {"so_wait", "so_lock", "so_update"}
               /\ (pc'[t] # pc[t] \/ waited'[t] # waited[t])) =>
                  UNCHANGED <<m_index, m_seed, m_cache, m_vm, dataset>>]_vars
    /\ [][\A t \in Threads :
              (pc[t] = "so_update" /\ pc'[t] # "so_update" /\ ~aborted' /\ ~uaf') =>
                  /\ m_seed'[OldIndex'] = arg[t]
                  /\ LightKey(OldIndex)' = arg[t]
                  /\ arg[t] \in Live']_vars

\* C5 witness: a set_old_seed that slept on the rotation counter has written
\* the non-current slot, and a calculate for its seed hashes with that
\* slot's VM.
C5_Witness ==
    \E t \in Threads :
        /\ pc[t] = "c_phash"
        /\ prevOld = "waited"
        /\ arg[t] = m_seed[Xor1(m_index)] /\ arg[t] # m_seed[m_index]

\* C6: a step of set_old_seed leaves the epoch index, the current slot's
\* seed, cache and VM, the dataset contents and the full-dataset VM as they
\* were, also while a set_seed is in its dataset-rebuild phase.
C6_OldSeedFrame ==
    [][\A t \in Threads :
          (pc[t] \in {"so_wait", "so_lock", "so_update"} /\ pc'[t] # pc[t]) =>
              /\ m_index' = m_index
              /\ m_seed'[m_index] = m_seed[m_index]
              /\ m_cache'[m_index] = m_cache[m_index]
              /\ m_vm'[m_index] = m_vm[m_index]
              /\ m_vm'[FULL_DATASET_VM] = m_vm[FULL_DATASET_VM]
              /\ dataset' = dataset]_vars

\* C6 witness: set_old_seed has written the non-current slot after the
\* flip of a set_seed that is still in its dataset-rebuild phase.
C6_Witness ==
    \E u \in Threads :
        /\ pc[u] \in {"ss_rdlock", "ss_build", "ss_join", "ss_fullvm"}
        /\ prevOld # "no"
        /\ m_seed[Xor1(m_index)] # m_seed[m_index]

\* C7: a set_seed whose seed equals the current slot's, when it has both
\* write locks, only increments the rotation counter: the epoch index,
\* both slot seeds, both caches, the three VMs and the dataset stay as they
\* were, the call goes to no cache re-initialization and no rebuild but
\* returns, and it holds neither lock afterwards.
C7_EqualSeedOnlyCounts ==
    [][\A t \in Threads :
          (pc[t] = "ss_clock" /\ pc'[t] # pc[t] /\ arg[t] = m_seed[m_index]) =>
              /\ UNCHANGED <<m_index, m_seed, m_cache, m_vm, dataset>>
              /\ m_setSeedCounter' = m_setSeedCounter + 1
              /\ pc'[t] = "idle"
              /\ dWriter' # t /\ cWriter' # t
              /\ t \notin dReaders' /\ t \notin cReaders']_vars

\* C7 witness: two set_seed calls have returned and been counted, and the
\* index has flipped once: one of the two found its seed in the current
\* slot.
C7_Witness ==
    /\ \A t \in Threads : pc[t] = "idle"
    /\ calls = MaxCalls - 2
    /\ m_setSeedCounter = 2
    /\ m_index = 1 /\ m_seed[1] = 1 /\ settled = 1
    /\ m_stopped = 0

\* C8: once the destructor has passed its two write locks, no calculate is
\* at a VM (at its mutex or computing a hash) or comes to one: a calculate
\* that took a read lock after that pass stops at the stopped flag.
C8_NoHashAfterLockPass ==
    tdpc \in {"td_locks", "td_vm", "td_free", "td_done"} =>
        \A t \in Threads :
            pc[t] \notin {"c_dmutex", "c_dhash", "c_cmutex", "c_chash",
                          "c_pmutex", "c_phash", "c_false"}

\* C8 witness: the destructor is past its lock pass and about to destroy,
\* and a calculate holds a read lock it took after that pass, before its
\* test of the stopped flag.
C8_Witness ==
    \E t \in Threads :
        /\ tdpc = "td_locks"
        /\ late[t]
        /\ pc[t] \in {"c_dstop", "c_cstop"}

\* C9 as stated, last part: once a creation of the full-dataset VM has
\* failed, no calculate ever hashes on the full-dataset path.
C9_FailedFullVmStaysLight ==
    fullVmFailed => \A t \in Threads : pc[t] # "c_dhash"

\* C9: without a dataset there is never a full-dataset VM; without a
\* full-dataset VM no calculate hashes on the full-dataset path, and
\* calculate reaches its final "return false" only for seeds no slot with
\* a VM holds, so that the current and previous seeds are served by the
\* cache-bound VMs; and the full-dataset VM comes into being only at the
\* end of a set_seed's dataset rebuild, a failed creation or not before.
C9_LightFallback ==
    /\ [](m_dataset = "null" => m_vm[FULL_DATASET_VM] = NoVM)
    /\ [](m_vm[FULL_DATASET_VM] = NoVM =>
              \A t \in Threads :
                  /\ pc[t] # "c_dhash"
                  /\ pc[t] = "c_false" => \A i \in Slots : ~SlotMatch(t, i))
    /\ [][(m_vm[FULL_DATASET_VM] = NoVM /\ m_vm'[FULL_DATASET_VM] # NoVM) =>
              \E t \in Threads : pc[t] = "ss_fullvm" /\ pc'[t] = "idle"]_vars

\* C9 witness: the full-dataset VM failed to be created in one rotation, a
\* later rotation created it, and a calculate hashes with it.
C9_Witness ==
    \E t \in Threads :
        /\ fullVmFailed
        /\ m_vm[FULL_DATASET_VM] = DatasetVM
        /\ pc[t] = "c_dhash"

\* The destructor and the caller threads.
Agents == Threads \cup {TD}

HoldsD(a) == dWriter = a \/ a \in dReaders
HoldsC(a) == cWriter = a \/ a \in cReaders

\* What agent a is waiting to acquire.
WantsDWrite(a) ==
    IF a = TD THEN tdpc = "td_dlock" ELSE pc[a] = "ss_dlock"
WantsCWrite(a) ==
    IF a = TD THEN tdpc = "td_clock" ELSE pc[a] \in {"ss_clock", "so_lock"}
WantsCRead(a) ==
    a # TD /\ pc[a] \in {"ss_rdlock", "c_clock"}
WantsMutex(a, i) ==
    IF a = TD THEN tdpc = "td_vm" /\ i = tdI
    ELSE \/ pc[a] \in {"c_dmutex", "ss_fullvm"} /\ i = FULL_DATASET_VM
         \/ pc[a] = "c_cmutex" /\ i = m_index
         \/ pc[a] \in {"c_pmutex", "ss_update", "so_update"} /\ i = Xor1(m_index)

\* Agent a cannot go on before agent b releases a lock.
BlockedBy(a, b) ==
    /\ a # b
    /\ \/ WantsDWrite(a) /\ HoldsD(b)
       \/ WantsCWrite(a) /\ HoldsC(b)
       \/ WantsCRead(a) /\ cWriter = b
       \/ \E i \in VMs : WantsMutex(a, i) /\ vmMutex[i] = b

\* Agent a is inside a call, or inside the destructor.
InFlight(a) ==
    IF a = TD THEN tdpc \notin {"td_start", "td_done"} ELSE pc[a] # "idle"

\* C10: no set of agents waits in a circle, each for a lock another of
\* them holds, and while an agent is inside an operation some step can be
\* taken; nobody asks for the dataset lock while holding the cache
\* lock, and a calculate that asks for or holds the cache read lock does
\* not hold the dataset read lock.
C10_NoDeadlock ==
    /\ \A S \in SUBSET Agents :
          S # {} => \E a \in S : \A b \in S : ~BlockedBy(a, b)
    /\ (~aborted /\ \E a \in Agents : InFlight(a)) => ENABLED Next
    /\ \A a \in Agents : WantsDWrite(a) => ~HoldsC(a)
    /\ \A t \in Threads :
          pc[t] \in {"c_clock", "c_cstop", "c_cmutex", "c_chash", "c_pmutex",
                     "c_phash", "c_false"} => ~HoldsD(t)

\* C10 witness: a set_seed holds both write locks, a calculate that found
\* the dataset lock busy waits for the cache read lock, and the destructor
\* waits for the dataset write lock.
C10_Witness ==
    \E t, u \in Threads :
        /\ pc[t] = "ss_update" /\ dWriter = t /\ cWriter = t
        /\ pc[u] = "c_clock"
        /\ tdpc = "td_dlock"

\* C11: whenever the dataset lock is not write-held and the full-dataset VM
\* exists, every item of the dataset was built from the current slot's
\* cache, and that cache was initialized with the current slot's seed; a
\* calculate that got the dataset read lock sees the same.
C11_DatasetIsCurrent ==
    /\ (dWriter = NoThread /\ m_vm[FULL_DATASET_VM] = DatasetVM) =>
          /\ \A j \in Items : dataset[j] = m_cache[m_index]
          /\ m_cache[m_index] = m_seed[m_index]
    /\ \A t \in Threads :
          (pc[t] \in {"c_dstop", "c_dmutex", "c_dhash"}
              /\ m_vm[FULL_DATASET_VM] = DatasetVM) =>
             \A j \in Items : dataset[j] = m_seed[m_index]

\* C11 witness: after a second rotation rebuilt the dataset, a calculate
\* hashes with the full-dataset VM under the dataset read lock.
C11_Witness ==
    \E t \in Threads :
        /\ pc[t] = "c_dhash" /\ t \in dReaders
        /\ m_setSeedCounter >= 2
        /\ m_seed[Xor1(m_index)] # ZeroSeed
        /\ \A j \in Items : dataset[j] = m_seed[m_index]

\* C12: the wait of set_old_seed ends when the stopped flag is set: a
\* set_old_seed that polls the rotation counter while the flag is set
\* leaves the poll, in every run that stays clear of destroyed locks and
\* released memory.
C12_WaitEndsOnStop ==
    \A t \in Threads :
        (pc[t] = "so_wait" /\ m_stopped = 1) ~> (pc[t] # "so_wait" \/ uaf)

\* Thread u is in the rebuild phase of set_seed (lines 234-285): it holds
\* the dataset write lock and has released the cache write lock.
Rebuilding(u) == pc[u] \in {"ss_rdlock", "ss_build", "ss_join", "ss_fullvm"}

\* Thread u rebuilds under the cache read lock of line 245.
RebuildingShared(u) == pc[u] \in {"ss_build", "ss_join", "ss_fullvm"}

\* C13: calculate never waits on the dataset lock. A thread can always
\* start a calculate, whoever holds the dataset lock; while a set_seed is in
\* its rebuild phase no calculate holds the dataset read lock, a calculate
\* that asks for the cache read lock gets it next to the rebuild's own, and
\* a calculate for the current seed goes on to hash with the current slot's
\* VM and can return at once.
C13_CalculateDoesNotWaitForRebuild ==
    /\ [](\A t \in Threads :
            /\ (pc[t] = "idle" /\ calls > 0 /\ ~aborted) =>
                  ENABLED Calculate_Enter(t, ZeroSeed)
            /\ (\E u \in Threads : Rebuilding(u)) => t \notin dReaders
            /\ (pc[t] = "c_clock" /\ ~aborted
                   /\ \E u \in Threads : RebuildingShared(u)) =>
                  ENABLED Calculate_CLock(t)
            /\ (pc[t] = "c_chash" /\ ~aborted) => ENABLED Calculate_CHash(t))
    /\ [][\A t \in Threads :
            (pc[t] = "c_cmutex" /\ pc'[t] # "c_cmutex"
                /\ arg[t] = m_seed[m_index]
                /\ \E u \in Threads : Rebuilding(u)) =>
               pc'[t] = "c_chash"]_vars

\* C13 witness: while another thread's set_seed waits for its rebuild
\* workers, a calculate for the new current seed that started after the
\* slot update holds the cache read lock next to the rebuild and hashes with
\* the current slot's VM.
C13_Witness ==
    \E t, u \in Threads :
        /\ pc[u] = "ss_join" /\ dWriter = u /\ u \in cReaders
        /\ \E w \in WorkerIds : worker[w] = "run"
        /\ pc[t] = "c_chash" /\ t \in cReaders /\ vmMutex[m_index] = t
        /\ arg[t] = m_seed[m_index] /\ arg[t] = arg[u]

\* C14: for every item count and every hardware hint, the ranges handed to
\* randomx_init_dataset are contiguous, do not overlap and cover exactly the
\* items 0 .. numItems - 1: the first starts at item 0, each ends where the
\* next starts, the last ends at numItems; there are as many as half the
\* hardware hint, and one for a hint of 0 or 1.
C14_RangesPartitionItems ==
    part.stage = "done" =>
        LET r == part.ranges
        IN  /\ Len(r) = IF part.hw > 1 THEN part.hw \div 2 ELSE 1
            /\ r[1].a = 0
            /\ \A k \in 1..(Len(r) - 1) : r[k].a + r[k].cnt = r[k + 1].a
            /\ r[Len(r)].a + r[Len(r)].cnt = part.items

\* C15: while a rebuild worker runs, the set_seed that started it is at the
\* join, holding the dataset write lock and the cache read lock, and nobody
\* holds the cache write lock; no worker runs when set_seed goes on to the
\* full-dataset VM, and none once it has returned. While a worker runs, the
\* current slot stays the same and its seed and cache are not written; the
\* full-dataset VM is created only when no worker is left.
C15_WorkersJoinedFirst ==
    /\ [](\A w \in WorkerIds :
            worker[w] = "run" =>
               /\ cWriter = NoThread
               /\ \E t \in Threads :
                     pc[t] = "ss_join" /\ dWriter = t /\ t \in cReaders)
    /\ []((\E t \in Threads : pc[t] = "ss_fullvm") =>
              \A w \in WorkerIds : worker[w] = "none")
    /\ [][(\E w \in WorkerIds : worker[w] = "run") =>
             /\ m_index' = m_index
             /\ m_seed'[m_index] = m_seed[m_index]
             /\ m_cache'[m_index] = m_cache[m_index]]_vars
    /\ [][m_vm'[FULL_DATASET_VM] # m_vm[FULL_DATASET_VM] =>
             \A w \in WorkerIds : worker[w] = "none"]_vars

\* C15 witness: one worker has finished and one still runs; the set_seed
\* waits at the join and a set_old_seed waits for the cache write lock.
C15_Witness ==
    \E t, u \in Threads :
        /\ pc[t] = "ss_join" /\ dWriter = t /\ t \in cReaders
        /\ worker[0] = "done" /\ worker[1] = "run"
        /\ pc[u] = "so_lock"

\* C16: whenever the cache lock is not write-held, each slot whose VM exists
\* (and has not been destroyed by the teardown) has its cache initialized
\* from the slot's seed and its VM bound to that cache. A slot's seed, cache
\* and VM are written only by a set_seed or set_old_seed that holds the
\* cache write lock, and a step that writes the seed also re-initializes the
\* cache and binds the VM, unless it panics or runs into released memory;
\* the only other writer is the teardown that releases them.
C16_SlotsConsistent ==
    /\ [](cWriter = NoThread =>
            \A i \in Slots :
                (m_vm[i] # NoVM /\ ~VmDestroyed(i) /\ ~MemReleased) =>
                   m_cache[i] = m_seed[i] /\ m_vm[i] = m_cache[i])
    /\ [][\A i \in Slots :
             (m_seed'[i] # m_seed[i] \/ m_cache'[i] # m_cache[i]
                 \/ m_vm'[i] # m_vm[i]) =>
                \/ tdpc \in {"td_vm", "td_free"} /\ m_seed'[i] = m_seed[i]
                \/ /\ \E t \in Threads :
                          cWriter = t /\ pc[t] \in {"ss_update", "so_update"}
                   /\ \/ aborted' \/ uaf'
                      \/ m_cache'[i] = m_seed'[i] /\ m_vm'[i] = m_seed'[i]]_vars

\* C16 witness: both slots hold different seeds with a VM each, the second
\* re-keyed by set_old_seed, while a rebuild is under way and the cache lock
\* is not write-held.
C16_Witness ==
    /\ cWriter = NoThread /\ tdpc = "td_start"
    /\ m_vm[0] # NoVM /\ m_vm[1] # NoVM
    /\ m_seed[0] # m_seed[1]
    /\ prevOld # "no"
    /\ \E u \in Threads : pc[u] = "ss_join"

\* The jobs whose work callback has started and not returned.
JobsAtWork == {t \in Threads : job[t] # "none"}

\* Thread t is inside set_seed or set_old_seed.
InBody(t) ==
    pc[t] \in {"ss_dlock", "ss_clock", "ss_update", "ss_rdlock", "ss_build",
               "ss_join", "ss_fullvm", "so_wait", "so_lock", "so_update"}

C18_IndexFlipsOnlyInSetSeed ==
    /\ [](\A t \in Threads :
            pc[t] = "ss_update" =>
               dWriter = t /\ cWriter = t /\ arg[t] # m_seed[m_index])
    /\ [][/\ m_index' # m_index =>
                /\ m_index' = 1 - m_index
                /\ m_stopped = 0
                /\ \E t \in Threads :
                      pc[t] = "ss_update" /\ pc'[t] # "ss_update"
          /\ \A t \in Threads :
                /\ (pc[t] = "ss_update" /\ pc'[t] # "ss_update"
                       /\ m_stopped = 0) => m_index' = 1 - m_index
                /\ (pc'[t] = "ss_update" /\ pc[t] # "ss_update") =>
                      pc[t] = "ss_clock"
                /\ (pc[t] = "ss_clock" /\ pc'[t] # "ss_clock"
                       /\ arg[t] = m_seed[m_index]) =>
                      pc'[t] = "idle" /\ m_index' = m_index]_vars

\* C18 witness: the index has flipped twice and is back at slot 0, with
\* two rotations to different seeds behind.
C18_Witness ==
    /\ m_index = 0 /\ m_setSeedCounter >= 2
    /\ m_seed[0] # ZeroSeed /\ m_seed[1] # ZeroSeed /\ m_seed[0] # m_seed[1]
    /\ prevOld = "no" /\ evictedOld = NoSeed
    /\ \A t \in Threads : pc[t] = "idle"

\* Thread t computes a hash with VM i (lines 340, 355, 365).
Using(t, i) ==
    \/ pc[t] = "c_dhash" /\ i = FULL_DATASET_VM
    \/ pc[t] = "c_chash" /\ i = m_index
    \/ pc[t] = "c_phash" /\ i = Xor1(m_index)

\* Thread t holds a VM mutex.
HoldsMutex(t) == \E i \in VMs : vmMutex[i] = t

\* C19: a thread that computes with a VM holds that VM's mutex, so at most
\* one does at a time; a VM is created, rebound or destroyed only in a step
\* that finds its mutex free. A thread that holds a VM mutex holds no other
\* one and does not ask for the dataset lock, the cache lock or a VM mutex,
\* and no step that takes one of these is made by a thread holding a VM
\* mutex.
C19_VmMutexDiscipline ==
    /\ [](\A t \in Threads :
            /\ \A i \in VMs : Using(t, i) => vmMutex[i] = t
            /\ \A i, j \in VMs : (vmMutex[i] = t /\ vmMutex[j] = t) => i = j
            /\ HoldsMutex(t) =>
                  /\ pc[t] \in {"c_dhash", "c_chash", "c_phash", "c_false"}
                  /\ ~WantsDWrite(t) /\ ~WantsCWrite(t) /\ ~WantsCRead(t)
                  /\ \A i \in VMs : ~WantsMutex(t, i))
    /\ [][/\ \A i \in VMs : m_vm'[i] # m_vm[i] => vmMutex[i] = NoThread
          /\ \A t \in Threads :
                (\/ dWriter' = t /\ dWriter # t
                 \/ cWriter' = t /\ cWriter # t
                 \/ t \in dReaders' \ dReaders
                 \/ t \in cReaders' \ cReaders
                 \/ \E i \in VMs : vmMutex'[i] = t /\ vmMutex[i] # t) =>
                   ~HoldsMutex(t)]_vars

\* C19 witness: one calculate computes with the current slot's VM under its
\* mutex while another calculate waits for the same mutex.
C19_Witness ==
    \E t, u \in Threads :
        /\ t # u
        /\ pc[t] = "c_chash" /\ vmMutex[m_index] = t
        /\ pc[u] = "c_cmutex" /\ arg[u] = arg[t]

\* Thread t holds nothing: neither lock in either mode, and no VM mutex.
HoldsNothing(t) ==
    /\ dWriter # t /\ t \notin dReaders
    /\ cWriter # t /\ t \notin cReaders
    /\ ~HoldsMutex(t)

\* C20: a thread that is not inside a call holds nothing, whichever return
\* path its last call took, and every step that ends a call leaves its
\* thread holding nothing; when no call is in progress and the destructor
\* is not inside its own lock pass, neither lock is held in any mode and no
\* VM mutex is held.
C20_ReturnsReleaseEverything ==
    /\ [](\A t \in Threads : pc[t] = "idle" => HoldsNothing(t))
    /\ []((\A t \in Threads : pc[t] = "idle") /\ dWriter # TD /\ cWriter # TD
             => /\ dWriter = NoThread /\ dReaders = {}
                /\ cWriter = NoThread /\ cReaders = {}
                /\ \A i \in VMs : vmMutex[i] = NoThread)
    /\ [][\A t \in Threads :
             (pc[t] # "idle" /\ pc'[t] = "idle") => HoldsNothing(t)']_vars

\* C20 witness: the call budget is used up by calls that include a
\* rotation and a set_old_seed, the destructor has set the stopped flag and
\* not yet taken a lock, every thread is idle and nothing is held.
C20_Witness ==
    /\ calls = 0 /\ m_stopped = 1 /\ tdpc = "td_dlock"
    /\ m_setSeedCounter >= 1 /\ prevOld # "no"
    /\ \A t \in Threads : pc[t] = "idle" /\ HoldsNothing(t)
    /\ dWriter = NoThread /\ cWriter = NoThread

====
